---- MODULE Spec2Model ----
(***************************************************************************)
(* The optimistic App of the fire-operation tracker (the first App of      *)
(* src/unnamed/part_000, lines 1-484) and services/apiService.ts.          *)
(*                                                                         *)
(* One step of the model is one uninterrupted run of JavaScript: the       *)
(* synchronous part of a handler up to its await, or the continuation that *)
(* runs when a request settles.  React state written in a step is the      *)
(* state of the next render; a handler reads its closure from the render   *)
(* that precedes the user event, that is, from the current state.          *)
(*                                                                         *)
(* Network: a request may stay in flight for any number of steps.  When it *)
(* is answered, the Remote Store acts on it and the client's continuation  *)
(* runs in the same step; a rejected request leaves the Remote Store       *)
(* unchanged.                                                              *)
(*                                                                         *)
(* Navigation through the Sidebar is folded into the user step that        *)
(* follows it: a user step is enabled whenever renderContent shows the     *)
(* tabs at all.                                                            *)
(***************************************************************************)
EXTENDS Integers, Sequences, FiniteSets, TLC

\* ------------------------------------------------------------- bounds
\* ids 1..MaxId exist; id 1 is in use when the session starts, the client
\* allocates the others
MaxId == 3
\* setTimeout callbacks pending together
MaxTimers == 2
\* mutation handlers the operator calls in one session
MaxCalls == 2

\* ------------------------------------------------------------- values
Null == <<>>
Some(x) == <<x>>
IsSome(o) == Len(o) > 0
Get(o) == o[1]

\* imageUrl of an activity: none (undefined or empty), a Drive export link,
\* the Drive thumbnail link
Urls == {"none", "drive", "thumb"}
\* what the form can produce for a new or edited activity
FormUrls == {"none", "drive"}

Activity(i, u) == [id |-> i, imageUrl |-> u]
Hotspot(i, c) == [id |-> i, count |-> c]
Incident(i) == [id |-> i]

\* messages of the errors sendRequest throws
ErrMsgs == {"HTTP Error: 500", "Failed to fetch"}
NoMsg == "null"
DefaultErrMsg == "cannot connect to the database"

\* AppSettings objects: a function from the fields present to values
SFields == {"systemName", "categories"}
DEFAULT_SETTINGS == [f \in SFields |-> "default"]
\* {...a, ...b}
Spread(a, b) ==
    [f \in (DOMAIN a) \cup (DOMAIN b) |-> IF f \in DOMAIN b THEN b[f] ELSE a[f]]

\* ------------------------------------------------------------- localStorage
Absent == [kind |-> "absent", val |-> Null]
Corrupt == [kind |-> "corrupt", val |-> Null]
Stored(v) == [kind |-> "val", val |-> Some(v)]

\* a mutant of getFromCache: a corrupt entry is read as an empty value
getFromCacheCorruptAsEmpty(ls, key) ==
    IF ls[key].kind = "val" THEN ls[key].val
    ELSE IF ls[key].kind = "corrupt" THEN Some(<<>>) ELSE Null

\* getFromCache: the parsed value, null when the key is absent or JSON.parse throws
getFromCache(ls, key) ==
    IF ls[key].kind = "val" THEN ls[key].val ELSE Null

\* setToCache: both keys written, or nothing when localStorage.setItem throws
setToCache(ls, key, data, ok) ==
    IF ok
    THEN [ls EXCEPT ![key] = Stored(data), !["timestamp"] = Stored("now")]
    ELSE ls

\* ------------------------------------------------------------- lists
Ids(list) == {list[i].id : i \in 1..Len(list)}
Elems(list) == {list[i] : i \in 1..Len(list)}
NoDuplicateIds(list) ==
    \A i, j \in 1..Len(list) : list[i].id = list[j].id => i = j

\* prev.filter(a => a.id !== id)
RemoveById(list, id) == SelectSeq(list, LAMBDA a : a.id # id)

\* list.find(a => a.id === id): the first match, undefined when there is none
FindById(list, id) ==
    LET hits == SelectSeq(list, LAMBDA a : a.id = id)
    IN  IF Len(hits) > 0 THEN Some(hits[1]) ELSE Null

\* prev.map(a => a.id === data.id ? data : a)
ReplaceById(list, data) ==
    [i \in 1..Len(list) |-> IF list[i].id = data.id THEN data ELSE list[i]]

\* [data, ...prev]
Prepend(list, data) == <<data>> \o list

\* if (backup) setX(prev => [...prev, backup])
RestoreBackup(list, backup) == list \o backup

\* ------------------------------------------------------------- apiService reads
\* fixDriveUrl: a Drive link (the thumbnail link is one too) becomes the thumbnail link
fixDriveUrl(url) ==
    IF url = "none" THEN url
    ELSE IF url \in {"drive", "thumb"} THEN "thumb"
    ELSE url

\* a GET answer: the rows of the sheet, or something that is no array
NonArray == [isArray |-> FALSE, rows |-> <<>>]
Rows(rows) == [isArray |-> TRUE, rows |-> rows]

\* getActivities, the value it returns for the answer res
getActivitiesValue(res) ==
    IF res.isArray
    THEN [i \in 1..Len(res.rows) |->
            [res.rows[i] EXCEPT !.imageUrl =
                IF res.rows[i].imageUrl # "none" THEN fixDriveUrl(@) ELSE "none"]]
    ELSE <<>>

\* getHotspots, the value it returns for the answer res
getHotspotsValue(res) == IF res.isArray THEN res.rows ELSE <<>>

\* getSettings, the value it returns: the config row, else the first row, else null
getSettingsValue(res) ==
    IF res.isArray /\ Len(res.rows) > 0
    THEN LET cfg == SelectSeq(res.rows, LAMBDA r : "id" \in DOMAIN r /\ r["id"] = "config")
         IN  IF Len(cfg) > 0 THEN Some(cfg[1]) ELSE Some(res.rows[1])
    ELSE Null

\* ------------------------------------------------------------- sendRequest
\* other parsed bodies: JSON null, and an object with status 'error'
JsonNull == [isArray |-> FALSE, rows |-> <<>>, isNull |-> TRUE]
ErrorBody(message) ==
    [isArray |-> FALSE, rows |-> <<>>, status |-> "error", message |-> message]

IsNullBody(body) == "isNull" \in DOMAIN body
\* data.status === 'error'
HasErrorStatus(body) == "status" \in DOMAIN body /\ body["status"] = "error"

\* an HTTP response: response.ok, whether JSON.parse accepts the text, and
\* the parsed body when it does
Response(ok, json, body) == [ok |-> ok, json |-> json, body |-> body]

HttpErrorMsg == "HTTP Error: 500"
NotJsonMsg == "Server response is not valid JSON."
UnknownApiErrorMsg == "Unknown API Error"
\* the TypeError of reading a property of null
NullStatusMsg == "Cannot read properties of null (reading 'status')"
ServerMsg == "Sheet not found"

Rejected(msg) == [rejected |-> TRUE, msg |-> msg, value |-> NonArray]
Resolved(value) == [rejected |-> FALSE, msg |-> "", value |-> value]

\* sendRequest, from the response of fetch on: what it throws or returns;
\* data.status throws a TypeError when data is null, the outer catch rethrows it
sendRequest(resp) ==
    IF ~resp.ok THEN Rejected(HttpErrorMsg)
    ELSE IF ~resp.json THEN Rejected(NotJsonMsg)
    ELSE IF IsNullBody(resp.body) THEN Rejected(NullStatusMsg)
    ELSE IF HasErrorStatus(resp.body)
         THEN Rejected(IF resp.body["message"] # "" THEN resp.body["message"]
                       ELSE UnknownApiErrorMsg)
    ELSE Resolved(resp.body)

\* the responses the Remote Store can give to a GET of rows
Responses(rows) ==
    {Response(FALSE, FALSE, NonArray), Response(TRUE, FALSE, NonArray),
     Response(TRUE, TRUE, JsonNull), Response(TRUE, TRUE, NonArray),
     Response(TRUE, TRUE, ErrorBody(ServerMsg)), Response(TRUE, TRUE, ErrorBody("")),
     Response(TRUE, TRUE, Rows(rows))}

\* ------------------------------------------------------------- state
VARIABLES
    activeTab, editingActivity,                        \* useState, lines 37-38
    activities, hotspotLogs, fireIncidents, appSettings, \* lines 42-45
    isInitialLoad, syncStatus, errorMsg,               \* lines 48-51
    localStorage,      \* the browser's storage, one entry per key
    remote,            \* the sheets of the Remote Store
    load,              \* the loadData call of the mount effect
    pending,           \* the handler calls waiting for their request
    timers,            \* pending setTimeout(() => setSyncStatus('idle'))
    nextId,            \* the next id the client allocates
    calls,             \* mutation handlers called so far
    last               \* the step taken last (history, read by the properties only)

vars == <<activeTab, editingActivity, activities, hotspotLogs, fireIncidents,
          appSettings, isInitialLoad, syncStatus, errorMsg, localStorage,
          remote, load, pending, timers, nextId, calls, last>>

reactData == <<activities, hotspotLogs, fireIncidents, appSettings>>

\* note: the HTTP response the step received, when the step settles a fetch
\* that the Remote Store answered; for the read of saveSettings, whether the
\* storage accepted the cache write
Step(op, arg) == [op |-> op, arg |-> arg, note |-> Null]

\* the three fetches of Promise.all
Fetches == {"activities", "hotspots", "settings"}
\* cached: the fetch wrote its value to the cache and no later read has
\* rewritten that key (history, read by the properties only)
Waiting == [st |-> "pending", val |-> Null, cached |-> FALSE]
Fulfilled(v, cached) == [st |-> "ok", val |-> v, cached |-> cached]
Failed == [st |-> "failed", val |-> Null, cached |-> FALSE]

\* ------------------------------------------------------------- initial states
SeedActivity == Activity(1, "drive")
SeedHotspot == Hotspot(1, 3)
ConfigRow == [f \in SFields \cup {"id"} |-> IF f = "id" THEN "config" ELSE "custom"]
\* a settings row written before the categories field existed: it lacks the field
PartialRow == [f \in {"id", "systemName"} |-> IF f = "id" THEN "config" ELSE "partial"]

\* what an earlier session can have left under the activities key: nothing,
\* an empty list, or record 1 as it was before its photo was added elsewhere
StaleActivity == Activity(1, "none")
CachedActivitiesChoices ==
    {Absent, Stored(<<>>), Stored(<<StaleActivity>>)}
CachedHotspotsChoices == {Absent, Stored(<<SeedHotspot>>)}
CachedSettingsChoices == {Absent, Stored(ConfigRow)}
SavedIncidentsChoices == {Absent, Corrupt, Stored(<<Incident(1)>>)}

InitProgram ==
    /\ activeTab = "dashboard"
    /\ editingActivity = Null
    /\ activities = <<>>
    /\ hotspotLogs = <<>>
    /\ fireIncidents = <<>>
    /\ appSettings = DEFAULT_SETTINGS
    /\ isInitialLoad = TRUE
    /\ syncStatus = "idle"
    /\ errorMsg = NoMsg
    /\ load = [pc |-> "init", cachedActivities |-> Null, cachedHotspots |-> Null,
               cachedSettings |-> Null, fetch |-> [k \in Fetches |-> Waiting]]
    /\ pending = {}
    /\ timers = 0
    /\ nextId = 2
    /\ calls = 0
    /\ last = Step("init", Null)

InitStore(ca, ch, cs, fi) ==
    /\ localStorage = [activities |-> ca, hotspots |-> ch, settings |-> cs,
                       fireIncidentsCache |-> Absent, timestamp |-> Absent,
                       fireIncidents |-> fi]
    /\ remote = [Activities |-> <<SeedActivity>>, Hotspots |-> <<SeedHotspot>>,
                 Settings |-> <<ConfigRow>>]

\* ------------------------------------------------------------- shared pieces
\* setTimeout(() => setSyncStatus('idle'), ...): one more callback pending;
\* callbacks beyond MaxTimers are not told apart
AddTimer(t) == IF t < MaxTimers THEN t + 1 ELSE t

\* renderContent shows the tabs: neither the loading screen nor the error screen
ContentVisible ==
    /\ load.pc # "init"
    /\ ~(isInitialLoad /\ Len(activities) = 0 /\ Len(hotspotLogs) = 0)
    /\ errorMsg = NoMsg

CanCall == calls < MaxCalls

\* a handler call waiting for its request: what the handler keeps in its closure
\* (data, backup, isUpdate), and before, the in-memory value that
\* handleSaveSettings and the delete handlers found (history, read by the
\* properties only)
Req(kind, data, backup, isUpdate, before) ==
    [kind |-> kind, data |-> data, backup |-> backup, isUpdate |-> isUpdate,
     before |-> before]

\* ------------------------------------------------------------- mount (read path)
\* a mutant of PaintCached: the cached value is not painted
PaintCachedSkipped(current, cached) == current

\* if (cached) setX(cached)
PaintCached(current, cached) == IF IsSome(cached) THEN Get(cached) ELSE current

\* if (cachedActivities && cachedHotspots) setIsInitialLoad(false)
InitialLoadAfterPaint(flag, ca, ch) == IF IsSome(ca) /\ IsSome(ch) THEN FALSE ELSE flag

\* a mutant of MergeSettings: the applied settings replace the current ones
MergeSettingsReplaced(prev, fetched) == IF IsSome(fetched) THEN Get(fetched) ELSE prev

\* if (cachedSettings) setAppSettings(prev => ({ ...prev, ...cachedSettings }))
MergeSettings(prev, fetched) == IF IsSome(fetched) THEN Spread(prev, Get(fetched)) ELSE prev

\* a mutant of LoadSavedIncidents: the saved list is not read
LoadSavedIncidentsIgnored(current, entry) == current

\* the second effect: fire incidents from localStorage, a parse failure is logged
LoadSavedIncidents(current, entry) ==
    IF entry.kind = "val" THEN Get(entry.val) ELSE current

\* both mount effects, up to the await of Promise.all
Mount ==
    /\ load.pc = "init"
    /\ LET ca == getFromCache(localStorage, "activities")
           ch == getFromCache(localStorage, "hotspots")
           cs == getFromCache(localStorage, "settings")
       IN  /\ activities' = PaintCached(activities, ca)
           /\ hotspotLogs' = PaintCached(hotspotLogs, ch)
           /\ appSettings' = MergeSettings(appSettings, cs)
           /\ isInitialLoad' = InitialLoadAfterPaint(isInitialLoad, ca, ch)
           /\ load' = [load EXCEPT !.pc = "fetching", !.cachedActivities = ca,
                                   !.cachedHotspots = ch, !.cachedSettings = cs]
    /\ errorMsg' = NoMsg
    /\ syncStatus' = "syncing"
    /\ fireIncidents' = LoadSavedIncidents(fireIncidents, localStorage["fireIncidents"])
    /\ last' = Step("mount", Null)
    /\ UNCHANGED <<activeTab, editingActivity, localStorage, remote, pending, timers, nextId, calls>>

\* the value a fetch of Promise.all returns for the answer res
FetchValue(k, res) ==
    CASE k = "activities" -> getActivitiesValue(res)
      [] k = "hotspots" -> getHotspotsValue(res)
      [] k = "settings" -> getSettingsValue(res)

SheetOf(k) ==
    CASE k = "activities" -> "Activities"
      [] k = "hotspots" -> "Hotspots"
      [] k = "settings" -> "Settings"

\* a mutant of CacheFetched: the fetched value is never written to the cache
CacheFetchedNever(ls, k, value, ok) == ls

\* the cache write of getActivities, getHotspots and getSettings
CacheFetched(ls, k, value, ok) ==
    IF k = "settings"
    THEN IF IsSome(value) THEN setToCache(ls, k, Get(value), ok) ELSE ls
    ELSE setToCache(ls, k, value, ok)

\* a mutant of FreshList: the fetched list is merged into the current one
FreshListMerged(current, fetched) ==
    fetched \o SelectSeq(current, LAMBDA a : a.id \notin Ids(fetched))

\* setActivities(Array.isArray(fetched) ? fetched : [])
FreshList(current, fetched) == fetched

\* a mutant of ClearInitialLoad: the finally block is missing
ClearInitialLoadMissing(flag) == flag

\* finally { setIsInitialLoad(false) }
ClearInitialLoad(flag) == FALSE

\* a fetch of Promise.all resolves; when it is the last one, the try block goes on
FetchResolveFrom(k, res, ok, note) ==
    /\ load.pc \in {"fetching", "rejected"}
    /\ load.fetch[k].st = "pending"
    /\ LET value == FetchValue(k, res)
           fetch == [load.fetch EXCEPT ![k] = Fulfilled(value, ok)]
           joined == load.pc = "fetching" /\ \A j \in Fetches : fetch[j].st = "ok"
       IN  /\ localStorage' = CacheFetched(localStorage, k, value, ok)
           /\ IF joined
              THEN /\ activities' = FreshList(activities, fetch["activities"].val)
                   /\ hotspotLogs' = FreshList(hotspotLogs, fetch["hotspots"].val)
                   /\ appSettings' = MergeSettings(appSettings, fetch["settings"].val)
                   /\ syncStatus' = "success"
                   /\ timers' = AddTimer(timers)
                   /\ isInitialLoad' = ClearInitialLoad(isInitialLoad)
                   /\ load' = [load EXCEPT !.pc = "resolved", !.fetch = fetch]
                   /\ last' = [Step("loadResolved", Null) EXCEPT !.note = note]
              ELSE /\ load' = [load EXCEPT !.fetch = fetch]
                   /\ last' = [Step("fetchResolved", Null) EXCEPT !.note = note]
                   /\ UNCHANGED <<activities, hotspotLogs, appSettings, syncStatus,
                                  timers, isInitialLoad>>
    /\ UNCHANGED <<activeTab, editingActivity, fireIncidents, errorMsg, remote,
                   pending, nextId, calls>>

FetchResolve(k, res, ok) == FetchResolveFrom(k, res, ok, Null)

\* if (cachedActivities || cachedHotspots)
HadCache(ca, ch, cs) == IsSome(ca) \/ IsSome(ch)

\* err.message || "..."
ShownMessage(msg) == IF msg # "" THEN msg ELSE DefaultErrMsg

\* a fetch of Promise.all rejects; the first rejection runs the catch block
FetchRejectFrom(k, msg, note) ==
    /\ load.pc \in {"fetching", "rejected"}
    /\ load.fetch[k].st = "pending"
    /\ IF load.pc = "fetching"
       THEN /\ IF HadCache(load.cachedActivities, load.cachedHotspots, load.cachedSettings)
               THEN /\ syncStatus' = "error"
                    /\ timers' = AddTimer(timers)
                    /\ UNCHANGED errorMsg
               ELSE /\ errorMsg' = ShownMessage(msg)
                    /\ UNCHANGED <<syncStatus, timers>>
            /\ isInitialLoad' = ClearInitialLoad(isInitialLoad)
            /\ load' = [load EXCEPT !.pc = "rejected", !.fetch[k] = Failed]
            /\ last' = [Step("loadRejected", Some(msg)) EXCEPT !.note = note]
       ELSE /\ load' = [load EXCEPT !.fetch[k] = Failed]
            /\ last' = [Step("fetchRejected", Null) EXCEPT !.note = note]
            /\ UNCHANGED <<syncStatus, timers, errorMsg, isInitialLoad>>
    /\ UNCHANGED <<activeTab, editingActivity, activities, hotspotLogs, fireIncidents,
                   appSettings, localStorage, remote, pending, nextId, calls>>

FetchReject(k, msg) == FetchRejectFrom(k, msg, Null)

\* the Remote Store answers fetch k with an HTTP response: sendRequest turns
\* the response into the rejection or the value of the fetch
FetchAnswer(k, resp, ok) ==
    LET out == sendRequest(resp)
        note == Some([k |-> k, response |-> resp])
    IN  IF out.rejected
        THEN FetchRejectFrom(k, out.msg, note)
        ELSE FetchResolveFrom(k, out.value, ok, note)

\* a setTimeout callback runs: setSyncStatus('idle')
TimerFire ==
    /\ timers > 0
    /\ timers' = timers - 1
    /\ syncStatus' = "idle"
    /\ last' = Step("timer", Null)
    /\ UNCHANGED <<activeTab, editingActivity, activities, hotspotLogs, fireIncidents,
                   appSettings, isInitialLoad, errorMsg, localStorage, remote, load,
                   pending, nextId, calls>>

\* ------------------------------------------------------------- Remote Store
\* a create or update of a row: update replaces the row of that id, anything else appends
RemoteSave(rows, data, isUpdate) ==
    IF isUpdate /\ data.id \in Ids(rows) THEN ReplaceById(rows, data) ELSE Append(rows, data)

\* a delete of a row by id
RemoteDelete(rows, id) == RemoveById(rows, id)

\* ------------------------------------------------------------- activities (write path)
\* handleEditRequest, from a row of the history list
EditRequest(a) ==
    /\ ContentVisible
    /\ a \in Elems(activities)
    /\ editingActivity' = Some(a)
    /\ activeTab' = "log"
    /\ last' = Step("edit", Some(a))
    /\ UNCHANGED <<reactData, isInitialLoad, syncStatus, errorMsg, localStorage, remote,
                   load, pending, timers, nextId, calls>>

\* handleCancelEdit, the form shows the button when it has initialData
CancelEdit ==
    /\ ContentVisible
    /\ IsSome(editingActivity)
    /\ editingActivity' = Null
    /\ activeTab' = "history"
    /\ last' = Step("cancelEdit", Null)
    /\ UNCHANGED <<reactData, isInitialLoad, syncStatus, errorMsg, localStorage, remote,
                   load, pending, timers, nextId, calls>>

\* a mutant of OptimisticSave: the list is left alone until the request settles
OptimisticSaveDeferred(list, data, isUpdate) == list

\* the optimistic write of handleSaveActivity and handleSaveHotspot
OptimisticSave(list, data, isUpdate) ==
    IF isUpdate THEN ReplaceById(list, data) ELSE Prepend(list, data)

\* handleSaveActivity up to its await; executeSave takes the id from initialData
\* when the form edits, and allocates it otherwise
SaveActivityCall(url) ==
    /\ ContentVisible
    /\ CanCall
    /\ LET isUpdate == IsSome(editingActivity)
           id == IF isUpdate THEN Get(editingActivity).id ELSE nextId
           data == Activity(id, url)
           req == Req("saveActivity", Some(data), Null, isUpdate, Null)
       IN  /\ isUpdate \/ nextId <= MaxId
           /\ req \notin pending
           /\ activities' = OptimisticSave(activities, data, isUpdate)
           /\ nextId' = IF isUpdate THEN nextId ELSE nextId + 1
           /\ pending' = pending \cup {req}
           /\ last' = Step("saveActivity", Some(req))
    /\ editingActivity' = Null
    /\ activeTab' = "history"
    /\ syncStatus' = "syncing"
    /\ calls' = calls + 1
    /\ UNCHANGED <<hotspotLogs, fireIncidents, appSettings, isInitialLoad, errorMsg,
                   localStorage, remote, load, timers>>

\* apiService.saveActivity resolves
SaveActivityResolve(req) ==
    /\ req \in pending
    /\ req.kind = "saveActivity"
    /\ remote' = [remote EXCEPT !.Activities = RemoteSave(@, Get(req.data), req.isUpdate)]
    /\ syncStatus' = "success"
    /\ timers' = AddTimer(timers)
    /\ pending' = pending \ {req}
    /\ last' = Step("saveActivityOk", Some(req))
    /\ UNCHANGED <<activeTab, editingActivity, reactData, isInitialLoad, errorMsg,
                   localStorage, load, nextId, calls>>

\* a mutant of RollbackCreate: only the first record of the list is looked at
RollbackCreateFirstOnly(list, id) ==
    IF Len(list) > 0 /\ list[1].id = id THEN Tail(list) ELSE list

\* setX(prev => prev.filter(a => a.id !== data.id))
RollbackCreate(list, id) == RemoveById(list, id)

\* apiService.saveActivity rejects: the catch block; an update starts the re-read
SaveActivityReject(req) ==
    /\ req \in pending
    /\ req.kind = "saveActivity"
    /\ syncStatus' = "error"
    /\ timers' = AddTimer(timers)
    /\ IF req.isUpdate
       THEN /\ pending' = (pending \ {req}) \cup {[req EXCEPT !.kind = "refetch"]}
            /\ UNCHANGED activities
       ELSE /\ pending' = pending \ {req}
            /\ activities' = RollbackCreate(activities, Get(req.data).id)
    /\ last' = Step("saveActivityFailed", Some(req))
    /\ UNCHANGED <<activeTab, editingActivity, hotspotLogs, fireIncidents, appSettings,
                   isInitialLoad, errorMsg, localStorage, remote, load, nextId, calls>>

\* apiService.getActivities().then(setActivities) resolves
RefetchResolve(req, res, ok) ==
    /\ req \in pending
    /\ req.kind = "refetch"
    /\ LET value == getActivitiesValue(res)
       IN  /\ localStorage' = setToCache(localStorage, "activities", value, ok)
           /\ activities' = value
    /\ load' = [load EXCEPT !.fetch["activities"].cached = @ /\ ~ok]
    /\ pending' = pending \ {req}
    /\ last' = Step("refetchOk", Some(req))
    /\ UNCHANGED <<activeTab, editingActivity, hotspotLogs, fireIncidents, appSettings,
                   isInitialLoad, syncStatus, errorMsg, remote, timers, nextId, calls>>

\* apiService.getActivities() rejects: the promise has no catch, nothing runs
RefetchReject(req) ==
    /\ req \in pending
    /\ req.kind = "refetch"
    /\ pending' = pending \ {req}
    /\ last' = Step("refetchFailed", Some(req))
    /\ UNCHANGED <<activeTab, editingActivity, reactData, isInitialLoad, syncStatus,
                   errorMsg, localStorage, remote, load, timers, nextId, calls>>

\* const backup = list.find(a => a.id === id)
CaptureBackup(list, id) == FindById(list, id)

\* handleDeleteActivity up to its await, for the row the operator confirmed
DeleteActivityCall(row) ==
    /\ ContentVisible
    /\ CanCall
    /\ row \in Elems(activities)
    /\ LET req == Req("deleteActivity", Some(row), CaptureBackup(activities, row.id), FALSE,
                      Some(activities))
       IN  /\ req \notin pending
           /\ pending' = pending \cup {req}
           /\ last' = Step("deleteActivity", Some(req))
    /\ activities' = RemoveById(activities, row.id)
    /\ activeTab' = "history"
    /\ syncStatus' = "syncing"
    /\ calls' = calls + 1
    /\ UNCHANGED <<editingActivity, hotspotLogs, fireIncidents, appSettings, isInitialLoad,
                   errorMsg, localStorage, remote, load, timers, nextId>>

\* apiService.deleteActivity resolves
DeleteActivityResolve(req) ==
    /\ req \in pending
    /\ req.kind = "deleteActivity"
    /\ remote' = [remote EXCEPT !.Activities = RemoteDelete(@, Get(req.data).id)]
    /\ syncStatus' = "success"
    /\ timers' = AddTimer(timers)
    /\ pending' = pending \ {req}
    /\ last' = Step("deleteActivityOk", Some(req))
    /\ UNCHANGED <<activeTab, editingActivity, reactData, isInitialLoad, errorMsg,
                   localStorage, load, nextId, calls>>

\* apiService.deleteActivity rejects: the catch block
DeleteActivityReject(req) ==
    /\ req \in pending
    /\ req.kind = "deleteActivity"
    /\ syncStatus' = "error"
    /\ timers' = AddTimer(timers)
    /\ activities' = RestoreBackup(activities, req.backup)
    /\ pending' = pending \ {req}
    /\ last' = Step("deleteActivityFailed", Some(req))
    /\ UNCHANGED <<activeTab, editingActivity, hotspotLogs, fireIncidents, appSettings,
                   isInitialLoad, errorMsg, localStorage, remote, load, nextId, calls>>

\* ------------------------------------------------------------- hotspots (write path)
\* handleSaveHotspot up to its await; HotspotManager allocates the id
SaveHotspotCall(count) ==
    /\ ContentVisible
    /\ CanCall
    /\ nextId <= MaxId
    /\ LET data == Hotspot(nextId, count)
           req == Req("saveHotspot", Some(data), Null, FALSE, Null)
       IN  /\ hotspotLogs' = OptimisticSave(hotspotLogs, data, FALSE)
           /\ pending' = pending \cup {req}
           /\ last' = Step("saveHotspot", Some(req))
    /\ nextId' = nextId + 1
    /\ activeTab' = "hotspot"
    /\ syncStatus' = "syncing"
    /\ calls' = calls + 1
    /\ UNCHANGED <<editingActivity, activities, fireIncidents, appSettings, isInitialLoad,
                   errorMsg, localStorage, remote, load, timers>>

\* apiService.saveHotspot resolves
SaveHotspotResolve(req) ==
    /\ req \in pending
    /\ req.kind = "saveHotspot"
    /\ remote' = [remote EXCEPT !.Hotspots = RemoteSave(@, Get(req.data), FALSE)]
    /\ syncStatus' = "success"
    /\ timers' = AddTimer(timers)
    /\ pending' = pending \ {req}
    /\ last' = Step("saveHotspotOk", Some(req))
    /\ UNCHANGED <<activeTab, editingActivity, reactData, isInitialLoad, errorMsg,
                   localStorage, load, nextId, calls>>

\* apiService.saveHotspot rejects: the catch block
SaveHotspotReject(req) ==
    /\ req \in pending
    /\ req.kind = "saveHotspot"
    /\ syncStatus' = "error"
    /\ timers' = AddTimer(timers)
    /\ hotspotLogs' = RollbackCreate(hotspotLogs, Get(req.data).id)
    /\ pending' = pending \ {req}
    /\ last' = Step("saveHotspotFailed", Some(req))
    /\ UNCHANGED <<activeTab, editingActivity, activities, fireIncidents, appSettings,
                   isInitialLoad, errorMsg, localStorage, remote, load, nextId, calls>>

\* handleDeleteHotspot up to its await, for the row the operator confirmed
DeleteHotspotCall(row) ==
    /\ ContentVisible
    /\ CanCall
    /\ row \in Elems(hotspotLogs)
    /\ LET req == Req("deleteHotspot", Some(row), CaptureBackup(hotspotLogs, row.id), FALSE,
                      Some(hotspotLogs))
       IN  /\ req \notin pending
           /\ pending' = pending \cup {req}
           /\ last' = Step("deleteHotspot", Some(req))
    /\ hotspotLogs' = RemoveById(hotspotLogs, row.id)
    /\ activeTab' = "hotspot"
    /\ syncStatus' = "syncing"
    /\ calls' = calls + 1
    /\ UNCHANGED <<editingActivity, activities, fireIncidents, appSettings, isInitialLoad,
                   errorMsg, localStorage, remote, load, timers, nextId>>

\* apiService.deleteHotspot resolves
DeleteHotspotResolve(req) ==
    /\ req \in pending
    /\ req.kind = "deleteHotspot"
    /\ remote' = [remote EXCEPT !.Hotspots = RemoteDelete(@, Get(req.data).id)]
    /\ syncStatus' = "success"
    /\ timers' = AddTimer(timers)
    /\ pending' = pending \ {req}
    /\ last' = Step("deleteHotspotOk", Some(req))
    /\ UNCHANGED <<activeTab, editingActivity, reactData, isInitialLoad, errorMsg,
                   localStorage, load, nextId, calls>>

\* apiService.deleteHotspot rejects: the catch block
DeleteHotspotReject(req) ==
    /\ req \in pending
    /\ req.kind = "deleteHotspot"
    /\ syncStatus' = "error"
    /\ timers' = AddTimer(timers)
    /\ hotspotLogs' = RestoreBackup(hotspotLogs, req.backup)
    /\ pending' = pending \ {req}
    /\ last' = Step("deleteHotspotFailed", Some(req))
    /\ UNCHANGED <<activeTab, editingActivity, activities, fireIncidents, appSettings,
                   isInitialLoad, errorMsg, localStorage, remote, load, nextId, calls>>

\* ------------------------------------------------------------- settings (write path)
\* what the settings form can submit: every field filled in
FormSettings == {[f \in SFields |-> v] : v \in {"custom", "edited"}}

\* a mutant of SettingsBackup: the backup is taken after the optimistic write
SettingsBackupLate(current, newSettings) == newSettings

\* const backup = appSettings
SettingsBackup(current, newSettings) == current

\* handleSaveSettings up to the first await of apiService.saveSettings
SaveSettingsCall(newSettings) ==
    /\ ContentVisible
    /\ CanCall
    /\ LET req == Req("saveSettings", Some(newSettings),
                      Some(SettingsBackup(appSettings, newSettings)), FALSE,
                      Some(appSettings))
       IN  /\ req \notin pending
           /\ pending' = pending \cup {req}
           /\ last' = Step("saveSettings", Some(req))
    /\ appSettings' = newSettings
    /\ activeTab' = "settings"
    /\ syncStatus' = "syncing"
    /\ calls' = calls + 1
    /\ UNCHANGED <<editingActivity, activities, hotspotLogs, fireIncidents, isInitialLoad,
                   errorMsg, localStorage, remote, load, timers, nextId>>

\* saveSettings: its getSettings resolves, action is update when a row came back
SaveSettingsRead(req, res, ok) ==
    /\ req \in pending
    /\ req.kind = "saveSettings"
    /\ LET current == getSettingsValue(res)
       IN  /\ localStorage' = CacheFetched(localStorage, "settings", current, ok)
           /\ pending' = (pending \ {req}) \cup
                    {[req EXCEPT !.kind = "postSettings", !.isUpdate = IsSome(current)]}
    /\ last' = [Step("saveSettingsRead", Some(req)) EXCEPT !.note = Some(ok)]
    /\ UNCHANGED <<activeTab, editingActivity, reactData, isInitialLoad, syncStatus,
                   errorMsg, remote, load, timers, nextId, calls>>

\* saveSettings: its getSettings rejects, the error is swallowed, action stays create
SaveSettingsReadFailed(req) ==
    /\ req \in pending
    /\ req.kind = "saveSettings"
    /\ pending' = (pending \ {req}) \cup {[req EXCEPT !.kind = "postSettings"]}
    /\ last' = Step("saveSettingsReadFailed", Some(req))
    /\ UNCHANGED <<activeTab, editingActivity, reactData, isInitialLoad, syncStatus,
                   errorMsg, localStorage, remote, load, timers, nextId, calls>>

\* const data = { ...settings, id: 'config' }
SettingsRow(settings) == Spread(settings, [f \in {"id"} |-> "config"])

\* saveSettings: the POST resolves
SaveSettingsResolve(req) ==
    /\ req \in pending
    /\ req.kind = "postSettings"
    /\ remote' = [remote EXCEPT
                    !.Settings = RemoteSave(@, SettingsRow(Get(req.data)), req.isUpdate)]
    /\ syncStatus' = "success"
    /\ timers' = AddTimer(timers)
    /\ pending' = pending \ {req}
    /\ last' = Step("saveSettingsOk", Some(req))
    /\ UNCHANGED <<activeTab, editingActivity, reactData, isInitialLoad, errorMsg,
                   localStorage, load, nextId, calls>>

\* saveSettings: the POST rejects: the catch block of handleSaveSettings
SaveSettingsReject(req) ==
    /\ req \in pending
    /\ req.kind = "postSettings"
    /\ syncStatus' = "error"
    /\ timers' = AddTimer(timers)
    /\ appSettings' = Get(req.backup)
    /\ pending' = pending \ {req}
    /\ last' = Step("saveSettingsFailed", Some(req))
    /\ UNCHANGED <<activeTab, editingActivity, activities, hotspotLogs, fireIncidents,
                   isInitialLoad, errorMsg, localStorage, remote, load, nextId, calls>>

\* ------------------------------------------------------------- factory reset
\* the keys of CACHE_KEYS; the fire incidents of the App live under another key
CacheKeys == {"activities", "hotspots", "settings", "fireIncidentsCache", "timestamp"}

\* Object.values(CACHE_KEYS).forEach(key => localStorage.removeItem(key))
clearCache(ls) == [key \in DOMAIN ls |-> IF key \in CacheKeys THEN Absent ELSE ls[key]]

\* the sheets apiService.factoryReset resets, in this order
ResetOrder == <<"Activities", "Hotspots", "Settings">>

\* the Remote Store's reset of a sheet: no row is left
RemoteReset(rows) == <<>>

\* a mutant of CacheAfterReset: the cache is cleared before the resets are through
CacheAfterResetEager(ls, allDone) == clearCache(ls)

\* factoryReset reaches its removeItem loop only after the three awaits
CacheAfterReset(ls, allDone) == IF allDone THEN clearCache(ls) ELSE ls

\* handleFactoryReset up to the first await of apiService.factoryReset;
\* isUpdate is unused, data is the position in ResetOrder
FactoryResetCall ==
    /\ ContentVisible
    /\ CanCall
    /\ LET req == Req("factoryReset", Some(1), Null, FALSE, Null)
       IN  /\ req \notin pending
           /\ pending' = pending \cup {req}
           /\ last' = Step("factoryReset", Some(req))
    /\ activeTab' = "settings"
    /\ syncStatus' = "syncing"
    /\ calls' = calls + 1
    /\ UNCHANGED <<editingActivity, reactData, isInitialLoad, errorMsg, localStorage,
                   remote, load, timers, nextId>>

\* a reset POST resolves; after the third one factoryReset clears the cache and
\* the try block of handleFactoryReset goes on
FactoryResetStep(req) ==
    /\ req \in pending
    /\ req.kind = "factoryReset"
    /\ LET n == Get(req.data)
           allDone == n = Len(ResetOrder)
       IN  /\ remote' = [remote EXCEPT ![ResetOrder[n]] = RemoteReset(@)]
           /\ localStorage' = CacheAfterReset(localStorage, allDone)
           /\ IF allDone
              THEN /\ activities' = <<>>
                   /\ hotspotLogs' = <<>>
                   /\ appSettings' = DEFAULT_SETTINGS
                   /\ syncStatus' = "success"
                   /\ activeTab' = "dashboard"
                   /\ timers' = AddTimer(timers)
                   /\ pending' = pending \ {req}
                   /\ last' = Step("factoryResetOk", Some(req))
              ELSE /\ pending' = (pending \ {req}) \cup {[req EXCEPT !.data = Some(n + 1)]}
                   /\ last' = Step("factoryResetStep", Some(req))
                   /\ UNCHANGED <<activities, hotspotLogs, appSettings, syncStatus,
                                  activeTab, timers>>
    /\ UNCHANGED <<editingActivity, fireIncidents, isInitialLoad, errorMsg, load,
                   nextId, calls>>

\* a reset POST rejects: the catch block of handleFactoryReset
FactoryResetReject(req) ==
    /\ req \in pending
    /\ req.kind = "factoryReset"
    /\ syncStatus' = "error"
    /\ timers' = AddTimer(timers)
    /\ pending' = pending \ {req}
    /\ last' = Step("factoryResetFailed", Some(req))
    /\ UNCHANGED <<activeTab, editingActivity, reactData, isInitialLoad, errorMsg,
                   localStorage, remote, load, nextId, calls>>

\* ------------------------------------------------------------- fire incidents
\* a mutant of RollbackBatch: only the first id of the batch is removed
RollbackBatchFirstOnly(list, batch) ==
    IF Len(batch) > 0 THEN RemoveById(list, batch[1].id) ELSE list

\* prev.filter(i => !newIncidents.some(n => n.id === i.id))
RollbackBatch(list, batch) == SelectSeq(list, LAMBDA i : i.id \notin Ids(batch))

\* the batch FireIncidentLog submits: n new incidents with fresh ids
Batch(n) == [k \in 1..n |-> Incident(nextId + k - 1)]

\* handleSaveFireIncidents: no await, the whole handler is one step;
\* ok is false when localStorage.setItem throws
SaveFireIncidents(n, ok) ==
    /\ ContentVisible
    /\ CanCall
    /\ nextId + n - 1 <= MaxId
    /\ LET newIncidents == Batch(n)
           optimistic == newIncidents \o fireIncidents
           allIncidents == newIncidents \o fireIncidents
       IN  IF ok
           THEN /\ fireIncidents' = optimistic
                /\ localStorage' = [localStorage EXCEPT !["fireIncidents"] = Stored(allIncidents)]
                /\ syncStatus' = "success"
                /\ last' = Step("saveFireIncidentsOk",
                                 [batch |-> newIncidents, before |-> fireIncidents])
           ELSE /\ fireIncidents' = RollbackBatch(optimistic, newIncidents)
                /\ syncStatus' = "error"
                /\ last' = Step("saveFireIncidentsFailed",
                                 [batch |-> newIncidents, before |-> fireIncidents])
                /\ UNCHANGED localStorage
    /\ nextId' = nextId + n
    /\ timers' = AddTimer(timers)
    /\ activeTab' = "fire_incident"
    /\ calls' = calls + 1
    /\ UNCHANGED <<editingActivity, activities, hotspotLogs, appSettings, isInitialLoad,
                   errorMsg, remote, load, pending>>

\* handleDeleteFireIncident: no await either
DeleteFireIncident(row, ok) ==
    /\ ContentVisible
    /\ CanCall
    /\ row \in Elems(fireIncidents)
    /\ LET backup == CaptureBackup(fireIncidents, row.id)
           optimistic == RemoveById(fireIncidents, row.id)
           updatedIncidents == RemoveById(fireIncidents, row.id)
       IN  IF ok
           THEN /\ fireIncidents' = optimistic
                /\ localStorage' = [localStorage EXCEPT !["fireIncidents"] = Stored(updatedIncidents)]
                /\ syncStatus' = "success"
                /\ last' = Step("deleteFireIncidentOk", Some(row))
           ELSE /\ fireIncidents' = RestoreBackup(optimistic, backup)
                /\ syncStatus' = "error"
                /\ last' = Step("deleteFireIncidentFailed", Some(row))
                /\ UNCHANGED localStorage
    /\ timers' = AddTimer(timers)
    /\ activeTab' = "fire_incident"
    /\ calls' = calls + 1
    /\ UNCHANGED <<editingActivity, activities, hotspotLogs, appSettings, isInitialLoad,
                   errorMsg, remote, load, pending, nextId>>

\* ------------------------------------------------------------- specifications
\* the read path with a storage that can refuse the cache writes
ReadPath ==
    \/ Mount
    \/ \E k \in Fetches, ok \in BOOLEAN : FetchResolve(k, Rows(remote[SheetOf(k)]), ok)
    \/ \E k \in Fetches, msg \in ErrMsgs : FetchReject(k, msg)

\* the read path with a well-behaved store and storage: rows or a failure
ReadPathPlain ==
    \/ Mount
    \/ \E k \in Fetches : FetchResolve(k, Rows(remote[SheetOf(k)]), TRUE)
    \/ \E k \in Fetches : FetchReject(k, "Failed to fetch")

\* the read path with a store that can also answer something that is no array
ReadPathAny ==
    \/ Mount
    \/ \E k \in Fetches : FetchResolve(k, Rows(remote[SheetOf(k)]), TRUE)
    \/ \E k \in Fetches : FetchResolve(k, NonArray, TRUE)
    \/ \E k \in Fetches : FetchReject(k, "Failed to fetch")

\* the read path over every response of the Remote Store, a network failure
\* and a storage that can refuse the cache writes
ReadPathResponses ==
    \/ Mount
    \/ \E k \in Fetches, ok \in BOOLEAN :
          \E resp \in Responses(remote[SheetOf(k)]) : FetchAnswer(k, resp, ok)
    \/ \E k \in Fetches : FetchReject(k, "Failed to fetch")

ActivityPath ==
    \/ \E a \in Elems(activities) : EditRequest(a)
    \/ CancelEdit
    \/ \E url \in FormUrls : SaveActivityCall(url)
    \/ \E req \in pending : SaveActivityResolve(req)
    \/ \E req \in pending : SaveActivityReject(req)
    \/ \E req \in pending : RefetchResolve(req, Rows(remote["Activities"]), TRUE)
    \/ \E req \in pending : RefetchReject(req)
    \/ \E row \in Elems(activities) : DeleteActivityCall(row)
    \/ \E req \in pending : DeleteActivityResolve(req)
    \/ \E req \in pending : DeleteActivityReject(req)

HotspotPath ==
    \/ \E count \in {0, 5} : SaveHotspotCall(count)
    \/ \E req \in pending : SaveHotspotResolve(req)
    \/ \E req \in pending : SaveHotspotReject(req)
    \/ \E row \in Elems(hotspotLogs) : DeleteHotspotCall(row)
    \/ \E req \in pending : DeleteHotspotResolve(req)
    \/ \E req \in pending : DeleteHotspotReject(req)

SettingsPath ==
    \/ \E s \in FormSettings : SaveSettingsCall(s)
    \/ \E req \in pending, ok \in BOOLEAN : SaveSettingsRead(req, Rows(remote["Settings"]), ok)
    \/ \E req \in pending : SaveSettingsReadFailed(req)
    \/ \E req \in pending : SaveSettingsResolve(req)
    \/ \E req \in pending : SaveSettingsReject(req)

FirePath ==
    \/ \E n \in 1..MaxId, ok \in BOOLEAN : SaveFireIncidents(n, ok)
    \/ \E row \in Elems(fireIncidents), ok \in BOOLEAN : DeleteFireIncident(row, ok)

\* the read path from every kind of cache, while the operator saves activities
InitLoad ==
    /\ InitProgram
    /\ \E ca \in CachedActivitiesChoices, ch \in CachedHotspotsChoices,
          cs \in CachedSettingsChoices :
          InitStore(ca, ch, cs, Absent)

\* saving an activity (create or update) while the read path runs
SavePath ==
    \/ \E a \in Elems(activities) : EditRequest(a)
    \/ \E url \in FormUrls : SaveActivityCall(url)
    \/ \E req \in pending : SaveActivityResolve(req)
    \/ \E req \in pending : SaveActivityReject(req)
    \/ \E req \in pending, ok \in BOOLEAN :
          RefetchResolve(req, Rows(remote["Activities"]), ok)
    \/ \E req \in pending : RefetchReject(req)

NextLoad == ReadPath \/ SavePath

SpecLoad == InitLoad /\ [][NextLoad]_vars

\* the write paths, each over a read path with a well-behaved store
InitWrite ==
    /\ InitProgram
    /\ \E ca \in {Absent, Stored(<<StaleActivity>>)} :
          InitStore(ca, Stored(<<SeedHotspot>>), Absent, Absent)

InitFire ==
    /\ InitProgram
    /\ \E fi \in SavedIncidentsChoices :
          InitStore(Stored(<<StaleActivity>>), Stored(<<SeedHotspot>>), Absent, fi)

NextActivities == ReadPathPlain \/ ActivityPath
SpecActivities == InitWrite /\ [][NextActivities]_vars

NextRecords == ReadPathPlain \/ ActivityPath \/ HotspotPath
SpecRecords == InitWrite /\ [][NextRecords]_vars

NextSettings == ReadPathPlain \/ SettingsPath
SpecSettings == InitWrite /\ [][NextSettings]_vars

NextFire == ReadPathAny \/ FirePath \/ TimerFire
SpecFire == InitFire /\ [][NextFire]_vars

\* the read path alone, from every kind of cache entry
CorruptibleChoices(value) == {Absent, Corrupt, Stored(value)}

InitCache ==
    /\ InitProgram
    /\ \E ca \in CorruptibleChoices(<<StaleActivity>>),
          ch \in CorruptibleChoices(<<SeedHotspot>>),
          cs \in CorruptibleChoices(ConfigRow) :
          InitStore(ca, ch, cs, Absent)

SpecCache == InitCache /\ [][ReadPathResponses]_vars

\* settings rows with and without every field, in the cache and in the sheet,
\* while the operator saves settings and the read path runs
InitMerge ==
    /\ InitProgram
    /\ \E cs \in {Absent, Corrupt, Stored(ConfigRow), Stored(PartialRow)},
          rs \in {<<>>, <<ConfigRow>>, <<PartialRow>>} :
          /\ localStorage = [activities |-> Stored(<<StaleActivity>>),
                             hotspots |-> Stored(<<SeedHotspot>>), settings |-> cs,
                             fireIncidentsCache |-> Absent, timestamp |-> Absent,
                             fireIncidents |-> Absent]
          /\ remote = [Activities |-> <<SeedActivity>>, Hotspots |-> <<SeedHotspot>>,
                       Settings |-> rs]

NextMerge == ReadPathPlain \/ SettingsPath
SpecMerge == InitMerge /\ [][NextMerge]_vars

\* the status indicator: saves of activities and hotspots over the read path,
\* with the setTimeout callbacks that clear the indicator
StatusPath ==
    \/ \E url \in FormUrls : SaveActivityCall(url)
    \/ \E req \in pending : SaveActivityResolve(req)
    \/ \E req \in pending : SaveActivityReject(req)
    \/ \E count \in {0, 5} : SaveHotspotCall(count)
    \/ \E req \in pending : SaveHotspotResolve(req)
    \/ \E req \in pending : SaveHotspotReject(req)
    \/ TimerFire

NextStatus == ReadPathPlain \/ StatusPath
SpecStatus == InitWrite /\ [][NextStatus]_vars

\* factory reset over the read path, in a session with saved fire incidents
ResetPath ==
    \/ FactoryResetCall
    \/ \E req \in pending : FactoryResetStep(req)
    \/ \E req \in pending : FactoryResetReject(req)

NextReset == ReadPathPlain \/ ResetPath
SpecReset == InitFire /\ [][NextReset]_vars

\* every handler that awaits the Remote Store, over the read path
NextMutations ==
    ReadPathPlain \/ ActivityPath \/ HotspotPath \/ SettingsPath \/ ResetPath
SpecMutations == InitWrite /\ [][NextMutations]_vars

\* the status indicator under the assumption that every call of the Remote
\* Store settles and every setTimeout callback runs; the operator's calls are
\* under no such assumption
SettleLoad ==
    \E k \in Fetches :
       FetchResolve(k, Rows(remote[SheetOf(k)]), TRUE) \/ FetchReject(k, "Failed to fetch")
SettleSave ==
    \E req \in pending :
       \/ SaveActivityResolve(req)
       \/ SaveActivityReject(req)
       \/ SaveHotspotResolve(req)
       \/ SaveHotspotReject(req)
FairStatus == WF_vars(SettleLoad) /\ WF_vars(SettleSave) /\ WF_vars(TimerFire)

\* the session starts with both lists cached or with nothing cached
InitLive ==
    /\ InitProgram
    /\ \E cached \in BOOLEAN :
          IF cached
          THEN InitStore(Stored(<<StaleActivity>>), Stored(<<SeedHotspot>>), Absent, Absent)
          ELSE InitStore(Absent, Absent, Absent, Absent)

SpecStatusLive == InitLive /\ [][NextStatus]_vars /\ FairStatus

\* ------------------------------------------------------------- properties
\* the request the last step was about
LastReq == Get(last.arg)

\* the mount effect found both lists in the cache
CachePopulated == IsSome(load.cachedActivities) /\ IsSome(load.cachedHotspots)

\* Promise.all is waiting and none of its three fetches has settled
NoFetchSettled ==
    /\ load.pc = "fetching"
    /\ \A k \in Fetches : load.fetch[k].st = "pending"

\* no request is outstanding: no handler waits, and every fetch of the mount has settled
Quiet ==
    /\ pending = {}
    /\ load.pc # "init"
    /\ \A k \in Fetches : load.fetch[k].st # "pending"

\* C1: in every reachable state each in-memory collection (activities,
\* hotspots, fire incidents) holds at most one record per id.
C1_OneRecordPerId ==
    /\ NoDuplicateIds(activities)
    /\ NoDuplicateIds(hotspotLogs)
    /\ NoDuplicateIds(fireIncidents)

\* C2: when the Remote Store has rejected the create of a record with id X
\* and the rejection has been handled, the in-memory collection holds no
\* record with id X (activities and hotspots).
C2_CreateRollback ==
    /\ (last.op = "saveActivityFailed" /\ ~LastReq.isUpdate)
          => Get(LastReq.data).id \notin Ids(activities)
    /\ last.op = "saveHotspotFailed"
          => Get(LastReq.data).id \notin Ids(hotspotLogs)

\* C2 happens: a create of an activity was rejected after the revalidation
\* had replaced the list, and the other records are still there
C2_Witness ==
    /\ last.op = "saveActivityFailed"
    /\ ~LastReq.isUpdate
    /\ load.pc = "resolved"
    /\ Len(activities) > 0

\* C3: the delete of a record R that is in the in-memory collection removes
\* R at once, and when the Remote Store has rejected the delete and the
\* rejection has been handled the collection again holds R with all its
\* original fields (activities and hotspots).
C3_DeleteRollback ==
    /\ last.op = "deleteActivity"
          => Get(LastReq.data).id \notin Ids(activities)
    /\ last.op = "deleteActivityFailed"
          => Get(LastReq.data) \in Elems(activities)
    /\ last.op = "deleteHotspot"
          => Get(LastReq.data).id \notin Ids(hotspotLogs)
    /\ last.op = "deleteHotspotFailed"
          => Get(LastReq.data) \in Elems(hotspotLogs)

\* C4: when the update of an activity has been rejected and the re-read of
\* the handler has settled, then with no request outstanding the in-memory
\* activities are the collection of the Remote Store (as getActivities
\* returns it), not the rejected edit.
C4_UpdateRollbackByRefetch ==
    (last.op \in {"refetchOk", "refetchFailed"} /\ Quiet)
       => activities = getActivitiesValue(Rows(remote["Activities"]))

\* C5: when the Remote Store has rejected a settings save and the rejection
\* has been handled, the in-memory settings are the settings that were
\* current immediately before the optimistic write of that call.
C5_SettingsRollback ==
    last.op = "saveSettingsFailed" => appSettings = Get(LastReq.before)

\* C5 happens: a rejected save has been rolled back to settings that differ
\* from the ones submitted and are not the defaults
C5_Witness ==
    /\ last.op = "saveSettingsFailed"
    /\ appSettings # Get(LastReq.data)
    /\ appSettings # DEFAULT_SETTINGS

\* C6: when persisting a batch of new fire incidents throws, the in-memory
\* fire incidents hold no record whose id is in the batch, and every record
\* that was there before the call is still there, in its place.
C6_BatchRollback ==
    last.op = "saveFireIncidentsFailed"
       => /\ Ids(fireIncidents) \cap Ids(last.arg.batch) = {}
          /\ fireIncidents = last.arg.before

\* C6 happens: a batch of two was rolled back next to a saved incident
C6_Witness ==
    /\ last.op = "saveFireIncidentsFailed"
    /\ Len(last.arg.batch) >= 2
    /\ Len(fireIncidents) > 0

\* C7, as stated: starting from a populated cache, when the three fetches of
\* the mount have resolved, the in-memory activities and hotspots are exactly
\* the lists the fetches returned, and the two cache entries hold those lists.
C7_RevalidationOverwrite ==
    (last.op = "loadResolved" /\ CachePopulated)
       => /\ activities = load.fetch["activities"].val
          /\ hotspotLogs = load.fetch["hotspots"].val
          /\ localStorage["activities"] = Stored(load.fetch["activities"].val)
          /\ localStorage["hotspots"] = Stored(load.fetch["hotspots"].val)

\* C7, amended: the in-memory lists are exactly the returned lists; a cache
\* entry holds the returned list when the storage accepted the write of that
\* fetch and no later read has rewritten the entry.
C7_RevalidationOverwriteAmended ==
    (last.op = "loadResolved" /\ CachePopulated)
       => /\ activities = load.fetch["activities"].val
          /\ hotspotLogs = load.fetch["hotspots"].val
          /\ load.fetch["activities"].cached
                => localStorage["activities"] = Stored(load.fetch["activities"].val)
          /\ load.fetch["hotspots"].cached
                => localStorage["hotspots"] = Stored(load.fetch["hotspots"].val)

\* C7 happens: the fetches resolved with a list that differs from the cached
\* one, and both cache writes went through
C7_Witness ==
    /\ last.op = "loadResolved"
    /\ CachePopulated
    /\ activities # Get(load.cachedActivities)
    /\ load.fetch["activities"].cached
    /\ load.fetch["hotspots"].cached

\* C8, as stated: with both cache entries present at mount, before any fetch
\* resolves the in-memory activities and hotspots are the cached values and
\* isInitialLoad is false.
C8_StalePaint ==
    (CachePopulated /\ NoFetchSettled)
       => /\ activities = Get(load.cachedActivities)
          /\ hotspotLogs = Get(load.cachedHotspots)
          /\ ~isInitialLoad

\* C8, amended: the same, as long as the operator has called no mutation handler.
C8_StalePaintAmended ==
    (CachePopulated /\ NoFetchSettled /\ calls = 0)
       => /\ activities = Get(load.cachedActivities)
          /\ hotspotLogs = Get(load.cachedHotspots)
          /\ ~isInitialLoad

\* C8 happens: the cached record is on screen while all three fetches wait
C8_Witness ==
    /\ CachePopulated
    /\ NoFetchSettled
    /\ calls = 0
    /\ Len(activities) > 0
    /\ Len(hotspotLogs) > 0

\* C9: when the fetch of the mount fails and the cache held any data
\* (activities, hotspots or settings), the cached data stays in memory, the
\* status is error and no full-screen error is set; only with no cache at all
\* errorMsg is set, to the raw message, and activities stay empty.
C9_ReadPathFailure ==
    last.op = "loadRejected"
       => IF \/ IsSome(load.cachedActivities)
             \/ IsSome(load.cachedHotspots)
             \/ IsSome(load.cachedSettings)
          THEN /\ syncStatus = "error"
               /\ errorMsg = NoMsg
               /\ calls = 0
                    => /\ activities = PaintCached(<<>>, load.cachedActivities)
                       /\ hotspotLogs = PaintCached(<<>>, load.cachedHotspots)
                       /\ appSettings = MergeSettings(DEFAULT_SETTINGS, load.cachedSettings)
          ELSE /\ errorMsg = Get(last.arg)
               /\ activities = <<>>

\* C10: once the batch of the mount has resolved or rejected, isInitialLoad
\* is false, and it stays false.
C10_InitialLoadCleared ==
    load.pc \in {"resolved", "rejected"} => ~isInitialLoad

\* C10 happens: the batch was rejected in a session that started without
\* cached activities, so that the flag was still set when the batch settled
C10_Witness ==
    /\ load.pc = "rejected"
    /\ ~IsSome(load.cachedActivities)
    /\ ~isInitialLoad

\* the changes of the status indicator the state machine of the spec allows
StatusEdges ==
    {<<"idle", "syncing">>, <<"syncing", "success">>, <<"syncing", "error">>,
     <<"success", "idle">>, <<"error", "idle">>}

\* C11: over any sequence of loads and mutations, overlapping ones included,
\* the sync status changes only along idle -> syncing, syncing -> success,
\* syncing -> error, success -> idle and error -> idle (so that idle is
\* reached after a mutation only once its success has been shown).
C11_StatusTransitions ==
    [][syncStatus' # syncStatus => <<syncStatus, syncStatus'>> \in StatusEdges]_vars

\* C12: when a remote reset call of factoryReset fails, the reset has changed
\* neither the in-memory activities, hotspots and settings nor any cache
\* entry, and the status becomes error: no step of the handler up to and
\* including the failure touches them.
C12_ResetFailurePreservesLocal ==
    [][/\ last'.op \in {"factoryReset", "factoryResetStep", "factoryResetFailed"}
           => UNCHANGED <<activities, hotspotLogs, appSettings, localStorage>>
       /\ last'.op = "factoryResetFailed" => syncStatus' = "error"]_vars

\* C12 happens: the second or third reset failed after the Remote Store had
\* emptied the Activities sheet, and the local list and its cache entry are there
C12_Witness ==
    /\ last.op = "factoryResetFailed"
    /\ remote["Activities"] = <<>>
    /\ Len(activities) > 0
    /\ localStorage["activities"].kind = "val"
    /\ syncStatus = "error"

\* C13: after factoryReset has succeeded, activities, hotspots and fire
\* incidents are empty lists, the settings are the default settings, every
\* locally persisted entry of the four collections and the timestamp is
\* removed, and the active view is the dashboard.
C13_ResetSuccess ==
    last.op = "factoryResetOk"
       => /\ activities = <<>>
          /\ hotspotLogs = <<>>
          /\ fireIncidents = <<>>
          /\ appSettings = DEFAULT_SETTINGS
          /\ \A key \in DOMAIN localStorage : localStorage[key] = Absent
          /\ activeTab = "dashboard"

\* the steps in which a catch block of a mutation handler has run
HandledRejections ==
    {"saveActivityFailed", "deleteActivityFailed", "saveHotspotFailed",
     "deleteHotspotFailed", "saveSettingsFailed", "factoryResetFailed"}

\* the last step was a rejection that no handler received: the re-read of
\* line 144 has a then and no catch
UnhandledRejection == last.op = "refetchFailed"

\* C14: every rejection of a Remote Store call that a mutation handler issues,
\* the re-read of the update rollback included, is caught and becomes a
\* rolled-back state with the error status; none is left unhandled.
C14_NoUnhandledRejection ==
    /\ last.op \in HandledRejections => syncStatus = "error"
    /\ ~UnhandledRejection

\* C15: the cache entry of a collection is written on every successful
\* remote write of that collection: after a successful create, update,
\* delete or settings save the entry equals the confirmed in-memory value.
C15_CacheWrittenOnWrite ==
    /\ last.op \in {"saveActivityOk", "deleteActivityOk"}
          => localStorage["activities"] = Stored(activities)
    /\ last.op \in {"saveHotspotOk", "deleteHotspotOk"}
          => localStorage["hotspots"] = Stored(hotspotLogs)
    /\ last.op = "saveSettingsOk"
          => localStorage["settings"] = Stored(appSettings)

\* the last step settled a fetch that the Remote Store answered
Answered == IsSome(last.note)
AnsweredFetch == Get(last.note).k
AnsweredResponse == Get(last.note).response
Resolving == last.op \in {"fetchResolved", "loadResolved"}
Rejecting == last.op \in {"fetchRejected", "loadRejected"}

\* C16: when the Remote Store answers a read of activities or hotspots with
\* null or another non-array value, the read resolves to an empty list and
\* the in-memory collection becomes an empty list (never null or a non-list).
C16_EmptyListTolerance ==
    (/\ Answered
     /\ AnsweredFetch \in {"activities", "hotspots"}
     /\ AnsweredResponse.ok
     /\ AnsweredResponse.json
     /\ ~AnsweredResponse.body.isArray
     /\ ~HasErrorStatus(AnsweredResponse.body))
       => /\ Resolving
          /\ load.fetch[AnsweredFetch].val = <<>>
          /\ (last.op = "loadResolved" /\ AnsweredFetch = "activities") => activities = <<>>
          /\ (last.op = "loadResolved" /\ AnsweredFetch = "hotspots") => hotspotLogs = <<>>

\* the settings object the step applies on the read path, when it applies one
AppliedSettings ==
    IF last'.op = "mount" THEN load'.cachedSettings
    ELSE IF last'.op = "loadResolved" THEN load'.fetch["settings"].val
    ELSE Null

\* C17: when the read path applies cached or fetched settings that lack a
\* field, the in-memory settings keep the value the field had and take the
\* applied value of every other field; and in every state each field of the
\* default settings is defined in the in-memory settings (every settings
\* object the form saves is complete).
C17_SettingsMerge ==
    /\ [](SFields \subseteq DOMAIN appSettings)
    /\ [][IsSome(AppliedSettings)
            => \A f \in DOMAIN appSettings :
                  /\ f \in DOMAIN appSettings'
                  /\ appSettings'[f] = IF f \in DOMAIN Get(AppliedSettings)
                                       THEN Get(AppliedSettings)[f]
                                       ELSE appSettings[f]]_vars

\* C17 happens: the load resolved with a fetched row that lacks categories,
\* and the settings keep the categories the operator had just saved
C17_Witness ==
    /\ last.op = "loadResolved"
    /\ IsSome(load.fetch["settings"].val)
    /\ "categories" \notin DOMAIN Get(load.fetch["settings"].val)
    /\ appSettings["categories"] = "edited"
    /\ appSettings["systemName"] = "partial"

\* C18: a cache read of an absent or corrupt entry returns null and does not
\* throw, a cache write whose storage call fails is swallowed, and a mount
\* with a corrupt entry behaves like a mount with that entry absent: nothing
\* is painted for it, and the load is rejected by a failed fetch only.
C18_CacheInfallible ==
    /\ \A key \in Fetches :
          localStorage[key].kind # "val" => getFromCache(localStorage, key) = Null
    /\ last.op = "mount"
          => /\ localStorage["activities"].kind # "val"
                   => activities = <<>> /\ load.cachedActivities = Null /\ isInitialLoad
             /\ localStorage["hotspots"].kind # "val"
                   => hotspotLogs = <<>> /\ load.cachedHotspots = Null /\ isInitialLoad
             /\ localStorage["settings"].kind # "val"
                   => appSettings = DEFAULT_SETTINGS /\ load.cachedSettings = Null
    /\ (load.fetch["activities"].st = "ok" /\ ~load.fetch["activities"].cached)
          => getFromCache(localStorage, "activities") = load.cachedActivities
    /\ (load.fetch["hotspots"].st = "ok" /\ ~load.fetch["hotspots"].cached)
          => getFromCache(localStorage, "hotspots") = load.cachedHotspots
    /\ load.pc = "rejected" => \E k \in Fetches : load.fetch[k].st = "failed"

\* C18 happens: the session mounted with a corrupt activities entry, the
\* storage refused the write of the fetched list, and the load resolved
C18_Witness ==
    /\ load.pc = "resolved"
    /\ localStorage["activities"] = Corrupt
    /\ ~load.fetch["activities"].cached
    /\ Len(activities) > 0

\* C19: sendRequest rejects when the response is not ok, when the body is
\* not parseable JSON, and, with the server's message, when the parsed body
\* has status 'error'; in every other case it resolves with the parsed body.
C19_FailureTaxonomy ==
    Answered
       => LET resp == AnsweredResponse
              failure == ~resp.ok \/ ~resp.json \/ HasErrorStatus(resp.body)
          IN  /\ failure => Rejecting
              /\ (last.op = "loadRejected" /\ ~resp.ok) => last.arg = Some(HttpErrorMsg)
              /\ (/\ last.op = "loadRejected"
                  /\ resp.ok
                  /\ resp.json
                  /\ HasErrorStatus(resp.body)
                  /\ resp.body["message"] # "")
                    => last.arg = Some(resp.body["message"])
              /\ ~failure
                    => /\ Resolving
                       /\ load.fetch[AnsweredFetch].val = FetchValue(AnsweredFetch, resp.body)

\* the two record collections and the in-memory list of each
Collections == {"activities", "hotspots"}
InMemory(coll) == IF coll = "activities" THEN activities ELSE hotspotLogs

\* the handler calls of a collection whose request has not settled
MutationKinds(coll) ==
    IF coll = "activities" THEN {"saveActivity", "deleteActivity"}
    ELSE {"saveHotspot", "deleteHotspot"}
Unconfirmed(coll) == {req \in pending : req.kind \in MutationKinds(coll)}

\* what the cache entry and the sheet of a collection hold, as the read path
\* would deliver them
CacheSnapshot(coll) ==
    LET cached == getFromCache(localStorage, coll)
    IN  IF IsSome(cached) THEN Get(cached) ELSE <<>>
RemoteSnapshot(coll) == FetchValue(coll, Rows(remote[SheetOf(coll)]))
\* what the mount effect read from the cache and painted
PaintedSnapshot(coll) ==
    LET cached == IF coll = "activities" THEN load.cachedActivities
                  ELSE load.cachedHotspots
    IN  IF IsSome(cached) THEN Get(cached) ELSE <<>>
CacheSnapshots(coll) == {CacheSnapshot(coll), PaintedSnapshot(coll)}

\* the optimistic write of the handler call req, applied to list
ApplyMutation(list, req) ==
    IF req.kind \in {"deleteActivity", "deleteHotspot"}
    THEN RemoveById(list, Get(req.data).id)
    ELSE OptimisticSave(list, Get(req.data), req.isUpdate)

SameRecords(a, b) == Elems(a) = Elems(b)

\* no collection has two handler calls waiting for their request
OnePendingMutation == \A coll \in Collections : Cardinality(Unconfirmed(coll)) <= 1

\* once the mount effect has run, each list holds the records of the cache
\* entry (as it is, or as the mount effect read it), of the cache entry with
\* one waiting mutation applied, or of the sheet
SnapshotShape ==
    load.pc # "init"
       => \A coll \in Collections :
             \/ \E snap \in CacheSnapshots(coll) : SameRecords(InMemory(coll), snap)
             \/ SameRecords(InMemory(coll), RemoteSnapshot(coll))
             \/ \E snap \in CacheSnapshots(coll), req \in Unconfirmed(coll) :
                   SameRecords(InMemory(coll), ApplyMutation(snap, req))

\* a rejected create is gone, a rejected delete is back, and a rejected update
\* is gone once its re-read has settled
RejectedNotKept ==
    /\ (last.op \in {"saveActivityFailed", "saveHotspotFailed"} /\ ~LastReq.isUpdate)
          => Get(LastReq.data).id \notin
                Ids(IF last.op = "saveActivityFailed" THEN activities ELSE hotspotLogs)
    /\ last.op = "deleteActivityFailed" => Get(LastReq.data).id \in Ids(activities)
    /\ last.op = "deleteHotspotFailed" => Get(LastReq.data).id \in Ids(hotspotLogs)
    /\ last.op \in {"refetchOk", "refetchFailed"}
          => \/ Get(LastReq.data) \notin Elems(activities)
             \/ Get(LastReq.data) \in Elems(RemoteSnapshot("activities"))

\* C20: at all times each in-memory collection is the last cache snapshot,
\* the last cache snapshot with exactly one optimistic mutation that is still
\* pending, or the Remote Store's snapshot; no state has two unconfirmed
\* optimistic mutations on the same collection, and no state keeps a mutation
\* that the Remote Store rejected.
C20_SnapshotOrOnePending ==
    /\ OnePendingMutation
    /\ SnapshotShape
    /\ RejectedNotKept

\* the ids the Remote Store accepted from a create of this session (the client
\* allocates them from 2 on) and still holds
AcceptedCreates == {id \in Ids(remote["Activities"]) : id >= 2}

\* C21: a created activity that the Remote Store accepted is in the in-memory
\* list in every later state, also when the mount revalidation or a re-read
\* resolves while or after the create is in flight (read path and saves only:
\* no delete and no factory reset is ever called).
C21_AcceptedCreateVisible == \A id \in AcceptedCreates : id \in Ids(activities)

\* the calls of handleSaveSettings whose request (the read, then the POST) has
\* not settled
SettingsInFlight == {req \in pending : req.kind \in {"saveSettings", "postSettings"}}

\* C22: while a mutation of an entity kind is in flight, a further save or
\* delete of that kind is disabled or ignored: at most one mutation of
\* activities, of hotspots and of the settings is in flight in any state (the
\* fire-incident handlers await nothing, so none of theirs is ever in flight).
C22_InFlightGuard ==
    /\ \A coll \in Collections : Cardinality(Unconfirmed(coll)) <= 1
    /\ Cardinality(SettingsInFlight) <= 1

\* the steps in which a mutation handler runs up to its await, and the steps
\* in which the code after that await runs
CallSteps ==
    {"saveActivity", "deleteActivity", "saveHotspot", "deleteHotspot",
     "saveSettings", "factoryReset"}
SettleSteps ==
    {"saveActivityOk", "saveActivityFailed", "deleteActivityOk", "deleteActivityFailed",
     "saveHotspotOk", "saveHotspotFailed", "deleteHotspotOk", "deleteHotspotFailed",
     "saveSettingsOk", "saveSettingsFailed", "factoryResetOk", "factoryResetFailed"}

\* the step leaves the optimistic write of the handler call req in memory
OptimisticApplied(req) ==
    LET data == Get(req.data)
        list == IF req.kind \in MutationKinds("activities") THEN activities'
                ELSE hotspotLogs'
    IN  CASE req.kind \in {"saveActivity", "saveHotspot"} ->
                IF req.isUpdate
                THEN \A row \in Elems(list) : row.id = data.id => row = data
                ELSE Len(list) > 0 /\ list[1] = data
          [] req.kind \in {"deleteActivity", "deleteHotspot"} -> data.id \notin Ids(list)
          [] req.kind = "saveSettings" -> appSettings' = data
          [] OTHER -> TRUE

\* C23: in every mutation handler the optimistic in-memory update and the
\* syncing status are applied in the step that issues the Remote Store call,
\* before the call can settle; the rollback and the success or error status
\* are applied only in a step in which that call resolves or rejects.
C23_MutationOrdering ==
    [][/\ last'.op \in CallSteps
            => /\ Get(last'.arg) \notin pending
               /\ Get(last'.arg) \in pending'
               /\ syncStatus' = "syncing"
               /\ OptimisticApplied(Get(last'.arg))
       /\ last'.op \in SettleSteps
            => /\ Get(last'.arg) \in pending
               /\ Get(last'.arg) \notin pending'
               /\ syncStatus' \in {"success", "error"}
       /\ (syncStatus' \in {"success", "error"} /\ syncStatus' # syncStatus)
            => last'.op \in SettleSteps \cup {"loadResolved", "loadRejected"}
       /\ (last'.op \notin CallSteps \cup SettleSteps
               \cup {"mount", "loadResolved", "refetchOk"})
            => UNCHANGED reactData]_vars

\* C23 happens: a delete of a hotspot was applied and sent, the Remote Store
\* rejected it, and only then the row came back and the status became error
C23_Witness ==
    /\ last.op = "deleteHotspotFailed"
    /\ LastReq \notin pending
    /\ Get(LastReq.data) \in Elems(hotspotLogs)
    /\ syncStatus = "error"

\* a call of the load or of a mutation handler has not settled (the re-read of
\* a rejected update, started after the error status, is not counted)
Outstanding ==
    \/ load.pc = "fetching"
    \/ \E req \in pending : req.kind # "refetch"

\* C24: there is no timeout: while the Remote Store call of a load or of a
\* mutation is outstanding the sync status is syncing; no other transition
\* takes the status out of syncing before that call settles.
C24_NoTimeout == Outstanding => syncStatus = "syncing"

\* C25: when every call of the Remote Store settles and every timer fires, a
\* sync status of syncing, success or error is followed by idle without an
\* action of the operator, for the mount load with or without cached data and
\* for every mutation.
C25_StatusReturnsToIdle == (syncStatus # "idle") ~> (syncStatus = "idle")

\* the read path has finished: the try or the catch block has run and no
\* fetch is waiting
ReadPathDone ==
    /\ load.pc \in {"resolved", "rejected"}
    /\ \A k \in Fetches : load.fetch[k].st # "pending"

\* the storage accepted the cache write of every fetch that resolved
StorageAccepted == \A k \in Fetches : load.fetch[k].st = "ok" => load.fetch[k].cached

\* what the mount effect read from the cache under key k
MountCached(k) ==
    CASE k = "activities" -> load.cachedActivities
      [] k = "hotspots" -> load.cachedHotspots
      [] k = "settings" -> load.cachedSettings

\* C26: the mount revalidation is all-or-nothing across the three fetches:
\* when one of them failed, the cache entries are the ones the mount found,
\* and after the read path has finished, with success or with failure, the
\* in-memory activities and hotspots equal their cache entries.
C26_AllOrNothing ==
    (ReadPathDone /\ StorageAccepted)
       => /\ load.pc = "rejected"
                => \A k \in Fetches : getFromCache(localStorage, k) = MountCached(k)
          /\ activities = CacheSnapshot("activities")
          /\ hotspotLogs = CacheSnapshot("hotspots")

\* the steps that handle the rejection of a mutation: the catch blocks, and the
\* re-read that a rejected update starts
RejectionSteps ==
    {"saveActivityFailed", "deleteActivityFailed", "saveHotspotFailed",
     "deleteHotspotFailed", "refetchOk"}

\* the optimistic effect of the handler call req is in memory
EffectInMemory(req) ==
    LET data == Get(req.data)
        list == IF req.kind \in MutationKinds("activities") THEN activities
                ELSE hotspotLogs
    IN  IF req.kind \in {"deleteActivity", "deleteHotspot"}
        THEN data.id \notin Ids(list)
        ELSE data \in Elems(list)

\* the handler calls req and other change the same collection, at different ids
OtherId(req, other) ==
    /\ \E coll \in Collections :
          req.kind \in MutationKinds(coll)
             /\ other.kind \in MutationKinds(coll) \cup {"refetch"}
    /\ Get(req.data).id # Get(other.data).id

\* C27: when two mutations on different ids of one collection are in flight
\* together and one is rejected, handling the rejection leaves the
\* optimistic effect of the other mutation in memory.
C27_DistinctIdsIndependent ==
    [][last'.op \in RejectionSteps
          => \A req \in pending :
                (/\ req \in pending'
                 /\ OtherId(req, Get(last'.arg))
                 /\ EffectInMemory(req))
                   => EffectInMemory(req)']_vars

\* C28: when every mutation issued on a collection or on the settings is
\* rejected, handling the rejections leaves the in-memory value as it was
\* before the first of them, in the same order. Stated for the step that
\* handles the rejection of a mutation whose optimistic value is the one in
\* memory: that step restores the value the handler found.
C28_RejectedRestoresValue ==
    [][LET req == Get(last'.arg)
       IN  /\ (last'.op = "deleteActivityFailed"
                  /\ activities = RemoveById(Get(req.before), Get(req.data).id))
                 => activities' = Get(req.before)
           /\ (last'.op = "deleteHotspotFailed"
                  /\ hotspotLogs = RemoveById(Get(req.before), Get(req.data).id))
                 => hotspotLogs' = Get(req.before)
           /\ (last'.op = "saveActivityFailed" /\ ~req.isUpdate
                  /\ Len(activities) > 0 /\ activities[1] = Get(req.data))
                 => activities' = Tail(activities)
           /\ (last'.op = "saveHotspotFailed"
                  /\ Len(hotspotLogs) > 0 /\ hotspotLogs[1] = Get(req.data))
                 => hotspotLogs' = Tail(hotspotLogs)]_vars

\* the settings row the Remote Store holds: the config row, else the first row
RemoteSettings == getSettingsValue(Rows(remote["Settings"]))

\* saveSettings: the write is an update exactly when the read returned a row
\* and a create otherwise, also after a failed read; the row written has the
\* id 'config' and the fields of the form; only a failed write rejects
SaveSettingsProtocol ==
    /\ last.op = "saveSettingsRead"
          => [LastReq EXCEPT !.kind = "postSettings",
                             !.isUpdate = (remote["Settings"] # <<>>)] \in pending
    /\ last.op = "saveSettingsReadFailed"
          => [LastReq EXCEPT !.kind = "postSettings", !.isUpdate = FALSE] \in pending
    /\ last.op = "saveSettingsOk"
          => \E row \in Elems(remote["Settings"]) :
                /\ row.id = "config"
                /\ \A f \in DOMAIN Get(LastReq.data) : row[f] = Get(LastReq.data)[f]
    /\ last.op = "saveSettingsFailed" => LastReq.kind = "postSettings"

\* C29, as stated: saveSettings reads before it writes, writes with update
\* exactly when the read returned a row, always with id 'config', rejects
\* only when the write fails, and its read leaves the cached settings equal
\* to the Remote Store's settings from before the write.
C29_ReadBeforeWrite ==
    /\ SaveSettingsProtocol
    /\ (last.op = "saveSettingsRead" /\ IsSome(RemoteSettings))
          => localStorage["settings"] = Stored(Get(RemoteSettings))

\* C29, amended: the read leaves the cached settings equal to the row it
\* returned when the storage accepted the cache write.
C29_ReadBeforeWriteAmended ==
    /\ SaveSettingsProtocol
    /\ (last.op = "saveSettingsRead" /\ IsSome(RemoteSettings) /\ Get(last.note))
          => localStorage["settings"] = Stored(Get(RemoteSettings))

\* C29 happens: the read cached the row that lacks categories, and then the
\* update replaced that row in the sheet by the complete row of the form
C29_Witness ==
    /\ last.op = "saveSettingsOk"
    /\ LastReq.isUpdate
    /\ localStorage["settings"] = Stored(PartialRow)
    /\ remote["Settings"] = <<SettingsRow(Get(LastReq.data))>>

\* the steps of the two fire-incident handlers
FireSteps ==
    {"saveFireIncidentsOk", "saveFireIncidentsFailed",
     "deleteFireIncidentOk", "deleteFireIncidentFailed"}

\* what a reload would show: the second mount effect on a fresh App
ReloadedIncidents == LoadSavedIncidents(<<>>, localStorage["fireIncidents"])

\* C30: after a call of handleSaveFireIncidents or handleDeleteFireIncident
\* whose storage write succeeded, the list under the 'fireIncidents' key is
\* the in-memory list, in the same order, and a reload restores exactly that
\* list; no other step changes either of them, and the two handlers issue no
\* Remote Store call.
C30_FirePersistenceMatchesMemory ==
    /\ [](last.op \in {"saveFireIncidentsOk", "deleteFireIncidentOk"}
            => /\ localStorage["fireIncidents"] = Stored(fireIncidents)
               /\ ReloadedIncidents = fireIncidents)
    /\ [][/\ last'.op \in FireSteps => UNCHANGED <<pending, remote>>
          /\ last'.op \notin FireSteps \cup {"mount"}
                => /\ fireIncidents' = fireIncidents
                   /\ localStorage'["fireIncidents"] = localStorage["fireIncidents"]]_vars

\* C30 happens: after a save and a delete a list of incidents is left, and
\* the stored list is that list
C30_Witness ==
    /\ last.op = "deleteFireIncidentOk"
    /\ Len(fireIncidents) > 0
    /\ localStorage["fireIncidents"] = Stored(fireIncidents)
    /\ calls = MaxCalls

====
